---- MODULE Spec2Model ----
(***************************************************************************)
(* A model of wx/tools/img2py.py: the conversion of one image into an      *)
(* embedded-image record of a generated Python module.                     *)
(*                                                                         *)
(* Text is modelled by TLA+ strings (a file's content is one string with   *)
(* its "\n" characters), bytes by sequences of numbers in 0..255.          *)
(*                                                                         *)
(* Three specifications share the variables:                               *)
(*   Spec     successive img2py() calls against one target artifact        *)
(*   SpecEnc  the payload encoder of img2py() applied to byte sequences    *)
(*   SpecSan  _replace_non_alphanumeric_with_underscore applied to names   *)
(***************************************************************************)
EXTENDS Integers, Sequences, FiniteSets, TLC

VARIABLES
    pyfile,     \* the target file python_file: NoFile or File(text)
    printed,    \* the texts written to sys.stdout by the most recent call
    tmpExists,  \* does the temporary file of the most recent call exist
    fsLog,      \* the file operations of the most recent call, in order
    outcome,    \* how the most recent call ended
    oldIndex,   \* old_index at the end of the most recent call
    app,        \* the module global app
    lastCall,   \* the most recent call: its arguments and what convert gave
    ncalls,     \* the number of calls made so far
    appends,    \* have all calls so far been catalog appends to the file
                \* whose conversion succeeded, and the names they passed
    initial,    \* the target file before the first call
    sanIn,      \* SpecSan: the argument imgName
    sanOut,     \* SpecSan: the result of the call
    encIn,      \* SpecEnc: the bytes of the temporary file
    encOut      \* SpecEnc: the value of `lines` after the loop

vars == <<pyfile, printed, tmpExists, fsLog, outcome, oldIndex, app, lastCall,
          ncalls, appends, initial, sanIn, sanOut, encIn, encOut>>

fileVars == <<pyfile, printed, tmpExists, fsLog, outcome, oldIndex, app,
              lastCall, ncalls, appends, initial>>
sanVars == <<sanIn, sanOut>>
encVars == <<encIn, encOut>>

-----------------------------------------------------------------------------
(* Bounds of the model *)

MaxCalls == 2       \* img2py() calls in one behaviour
MaxNameLen == 3     \* length of the names given to the sanitizer
MaxBytes == 112     \* length of the byte sequences given to the encoder

-----------------------------------------------------------------------------
(* Characters and strings *)

NotRun == "<not run>"
\* A file that does not exist, and a file with its content
NoFile == [exists |-> FALSE, text |-> ""]
File(text) == [exists |-> TRUE, text |-> text]

\* The value None
None == "<None>"

Min(a, b) == IF a <= b THEN a ELSE b

LowerLetters == "abcdefghijklmnopqrstuvwxyz"
UpperLetters == "ABCDEFGHIJKLMNOPQRSTUVWXYZ"
Digits == "0123456789"

Char(s, i) == SubSeq(s, i, i)

CharsOf(s) == {Char(s, i) : i \in 1..Len(s)}

\* str.isalpha() and str.isalnum() of one character
isalpha(c) == c \in CharsOf(LowerLetters) \cup CharsOf(UpperLetters)

isalnum(c) == isalpha(c) \/ c \in CharsOf(Digits)

\* str.isspace() of one character, the class \s of the pattern
isspace(c) == c \in {" ", "\t", "\n", "\r", "\f"}

RECURSIVE Concat(_)
\* "".join(parts)
Concat(parts) ==
    IF parts = <<>> THEN "" ELSE Head(parts) \o Concat(Tail(parts))

RECURSIVE Join(_, _)
\* sep.join(parts)
Join(sep, parts) ==
    IF parts = <<>> THEN ""
    ELSE IF Len(parts) = 1 THEN parts[1]
    ELSE parts[1] \o sep \o Join(sep, Tail(parts))

\* str.upper() of one character
UpperChar(c) ==
    IF c \in CharsOf(LowerLetters)
    THEN Char(UpperLetters, CHOOSE i \in 1..26 : Char(LowerLetters, i) = c)
    ELSE c

\* str.upper()
upper(s) == Concat([i \in 1..Len(s) |-> UpperChar(Char(s, i))])

\* str.endswith(suffix)
endswith(s, suffix) ==
    /\ Len(s) >= Len(suffix)
    /\ SubSeq(s, Len(s) - Len(suffix) + 1, Len(s)) = suffix

\* "-" * 70
Dashes70 == "----------------------------------------------------------------------"

-----------------------------------------------------------------------------
(* _replace_non_alphanumeric_with_underscore *)

\* The result of a call: the value returned, or the exception raised
Returned(v) == [exc |-> "none", val |-> v]
Raised(e) == [exc |-> e, val |-> ""]

\* letters = [letter if letter.isalnum() else '_' for letter in imgName]
SanLetters(imgName) ==
    [i \in 1..Len(imgName) |->
        IF isalnum(Char(imgName, i)) THEN Char(imgName, i) ELSE "_"]

\* letters[0] of an empty list raises IndexError
_replace_non_alphanumeric_with_underscore(imgName) ==
    LET letters == SanLetters(imgName)
    IN  IF Len(letters) = 0 THEN Raised("IndexError")
        ELSE IF ~isalpha(letters[1]) /\ letters[1] # "_"
             THEN Returned(Concat(<<"_">> \o letters))
             ELSE Returned(Concat(letters))

-----------------------------------------------------------------------------
(* base64.b64encode and the payload lines of img2py *)

B64Alphabet ==
    "ABCDEFGHIJKLMNOPQRSTUVWXYZabcdefghijklmnopqrstuvwxyz0123456789+/"

B64Char(n) == Char(B64Alphabet, n + 1)

B64Index(c) == CHOOSE n \in 0..63 : B64Char(n) = c

RECURSIVE b64encode(_)
\* Three bytes give four characters; one or two trailing bytes are padded
b64encode(b) ==
    IF Len(b) = 0 THEN ""
    ELSE IF Len(b) = 1 THEN
        B64Char(b[1] \div 4) \o B64Char((b[1] % 4) * 16) \o "=="
    ELSE IF Len(b) = 2 THEN
        B64Char(b[1] \div 4)
            \o B64Char((b[1] % 4) * 16 + b[2] \div 16)
            \o B64Char((b[2] % 16) * 4) \o "="
    ELSE
        B64Char(b[1] \div 4)
            \o B64Char((b[1] % 4) * 16 + b[2] \div 16)
            \o B64Char((b[2] % 16) * 4 + b[3] \div 64)
            \o B64Char(b[3] % 64)
            \o b64encode(SubSeq(b, 4, Len(b)))

RECURSIVE b64decode(_)
\* base64.b64decode, as PyEmbeddedImage applies it to the payload
b64decode(s) ==
    IF Len(s) < 4 THEN <<>>
    ELSE
        LET n1 == B64Index(Char(s, 1))
            n2 == B64Index(Char(s, 2))
            c3 == Char(s, 3)
            c4 == Char(s, 4)
            b1 == n1 * 4 + n2 \div 16
        IN  IF c3 = "=" THEN <<b1>>
            ELSE IF c4 = "=" THEN
                <<b1, (n2 % 16) * 16 + B64Index(c3) \div 4>>
            ELSE
                <<b1, (n2 % 16) * 16 + B64Index(c3) \div 4,
                  (B64Index(c3) % 4) * 64 + B64Index(c4)>>
                    \o b64decode(SubSeq(s, 5, Len(s)))

\* '%s' % part, part a bytes object of base64 characters
BytesStr(part) == "b'" \o part \o "'"

\* The width of one part of the encoded data
ChunkWidth == 72

Indent == "    "

\* A variant that closes every line
PayloadOutputAlwaysClosed(part, rest) == Indent \o BytesStr(part) \o ")"

\* output = '    %s' % part; if not data: output += ")"
PayloadOutput(part, rest) ==
    IF rest = "" THEN Indent \o BytesStr(part) \o ")"
    ELSE Indent \o BytesStr(part)

RECURSIVE PayloadLines(_)
\* lines = []; while data: part = data[:72]; data = data[72:]; ...
PayloadLines(data) ==
    IF data = "" THEN <<>>
    ELSE
        LET part == SubSeq(data, 1, Min(ChunkWidth, Len(data)))
            rest == SubSeq(data, ChunkWidth + 1, Len(data))
        IN  <<PayloadOutput(part, rest)>> \o PayloadLines(rest)


-----------------------------------------------------------------------------
(* The defaults of the arguments of img2py *)

DEFAULT_APPEND == FALSE
DEFAULT_MASKCLR == None
DEFAULT_IMGNAME == ""
DEFAULT_ICON == FALSE
DEFAULT_CATALOG == FALSE
DEFAULT_COMPATIBLE == FALSE

\* The default of the misspelt argument functionCompatibile
NoTypo == -1

-----------------------------------------------------------------------------
(* indexPattern and the scan of the existing artifact *)

NoMatch == [match |-> FALSE, group |-> ""]
Match(group) == [match |-> TRUE, group |-> group]

\* The positions of the line breaks of a text
Breaks(text) == {i \in 1..Len(text) : Char(text, i) = "\n"}

RECURSIVE Ascending(_)
\* The numbers of a set in ascending order
Ascending(S) ==
    IF S = {} THEN <<>>
    ELSE <<CHOOSE m \in S : \A n \in S : m <= n>>
            \o Ascending(S \ {CHOOSE m \in S : \A n \in S : m <= n})

\* The pieces of a text that end at the given positions
Cut(text, ends) ==
    [k \in 1..Len(ends) |->
        SubSeq(text, IF k = 1 THEN 1 ELSE ends[k - 1] + 1, ends[k])]

\* for line in sourcePy: the lines of a text, each with its line break
\* (the last one without, when the text does not end with one)
SplitLines(text) ==
    Cut(text, Ascending(Breaks(text)
                \cup (IF text = "" THEN {} ELSE {Len(text)})))

\* The number of leading white-space characters of a line
LeadingSpace(line) ==
    LET stops == {i \in 1..Len(line) : ~isspace(Char(line, i))}
    IN  IF stops = {} THEN Len(line)
        ELSE (CHOOSE i \in stops : \A j \in stops : i <= j) - 1

\* indexPattern.match(line): the group of \s*index.append\('(.+)'\)\s* at
\* the start of the line, or NoMatch.  The dot after "index" is any
\* character but a line break; the group is greedy, so it ends at the last
\* "')" of the line.
IndexMatch(line) ==
    LET from == LeadingSpace(line) + 1
        body == SubSeq(line, from, Len(line))
        rest == SubSeq(body, 15, Len(body))
        ends == {j \in 2..(Len(rest) - 1) :
                    /\ SubSeq(rest, j, j + 1) = "')"
                    /\ \A i \in 1..(j - 1) : Char(rest, i) # "\n"}
    IN  IF /\ Len(body) >= 14
           /\ SubSeq(body, 1, 5) = "index"
           /\ Char(body, 6) # "\n"
           /\ SubSeq(body, 7, 14) = "append('"
           /\ ends # {}
        THEN LET j == CHOOSE e \in ends : \A f \in ends : e >= f
             IN  Match(SubSeq(rest, 1, j - 1))
        ELSE NoMatch

CatalogLine == "catalog = {}\n"
IndexLine == "index = []\n"

\* append_catalog after the scan of the lines
NoCatalogLine(lines) == \A k \in 1..Len(lines) : lines[k] # CatalogLine

AppendCatalog(text) == NoCatalogLine(SplitLines(text))

\* The groups of the lines that match
Groups(hits) == [k \in 1..Len(hits) |-> IndexMatch(hits[k]).group]

\* old_index after the scan
ScanIndex(text) ==
    Groups(SelectSeq(SplitLines(text),
                     LAMBDA l : l # CatalogLine /\ IndexMatch(l).match))

\* The text appended when the artifact has no catalog yet
CatalogStart ==
    "\n# ***************** Catalog starts here *******************"
        \o "\n\ncatalog = {}\n" \o "index = []\n\n"

-----------------------------------------------------------------------------
(* _write_image *)

\* sys.argv[0]
Argv0 == "img2py.py"

\* print(s): writes s and a line break
OutLine(s) == s \o "\n"

Separator == "#" \o Dashes70 \o "\n"

\* The lines written before the first record of an overwritten file
Header(catalog) ==
    "# This file was generated by " \o Argv0 \o "\n#\n"
        \o "from wx.lib.embeddedimage import PyEmbeddedImage\n\n"
        \o (IF catalog THEN CatalogLine \o "index = []\n\n" ELSE "")

\* The two registrations of a name
Registration(imgName, varName) ==
    "index.append('" \o imgName \o "')\n"
        \o "catalog['" \o imgName \o "'] = " \o varName \o "\n"

\* The accessor bindings of the old function interface
Accessors(varName, icon) ==
    "get" \o varName \o "Data = " \o varName \o ".GetData\n"
        \o "get" \o varName \o "Image = " \o varName \o ".GetImage\n"
        \o "get" \o varName \o "Bitmap = " \o varName \o ".GetBitmap\n"
        \o (IF icon
            THEN "get" \o varName \o "Icon = " \o varName \o ".GetIcon\n"
            ELSE "")

DuplicateWarning(imgName) ==
    <<OutLine("Warning: " \o imgName \o " already in catalog."),
      OutLine("         Only the last entry will be accessible.\n")>>

\* A variant that writes the header in append mode too
RecordHeadAlways(append, catalog) == Separator \o Header(catalog)

\* What precedes the assignment of a record
RecordHead(append, catalog) ==
    Separator \o (IF ~append THEN Header(catalog) ELSE "")

\* A variant that never warns
CatalogWarningsNone(imgName, catalog, old_index) == <<>>

\* if catalog: if imgName in old_index: print ...
CatalogWarnings(imgName, catalog, old_index) ==
    IF catalog /\ \E k \in 1..Len(old_index) : old_index[k] = imgName
    THEN DuplicateWarning(imgName)
    ELSE <<>>

\* _write_image(out, imgName, data, append, icon, catalog,
\* functionCompatible, old_index): the text written to out before and after
\* the warnings, the warnings printed, old_index afterwards, and the
\* exception that ended it, if any
WriteImage(imgName, data, append, icon, catalog, compatible, old_index) ==
    LET san == _replace_non_alphanumeric_with_underscore(imgName)
        varName == san.val
    IN  IF san.exc # "none"
        THEN [exc |-> san.exc,
              text1 |-> RecordHead(append, catalog),
              printed |-> <<>>,
              text2 |-> "",
              old_index |-> old_index]
        ELSE [exc |-> "none",
              text1 |-> RecordHead(append, catalog)
                    \o varName \o " = PyEmbeddedImage(\n" \o data \o "\n",
              printed |-> CatalogWarnings(imgName, catalog, old_index),
              text2 |-> (IF catalog THEN Registration(imgName, varName)
                         ELSE "")
                    \o (IF compatible THEN Accessors(varName, icon)
                        ELSE "")
                    \o "\n",
              old_index |-> IF catalog THEN Append(old_index, imgName)
                            ELSE old_index]

-----------------------------------------------------------------------------
(* os.path.split and os.path.splitext *)

\* os.path.split(path)[1]: what follows the last "/"
PathTail(path) ==
    LET seps == {i \in 1..Len(path) : Char(path, i) = "/"}
        last == IF seps = {} THEN 0
                ELSE CHOOSE i \in seps : \A j \in seps : i >= j
    IN  SubSeq(path, last + 1, Len(path))

\* os.path.splitext(name)[0] of a name without "/": the name up to its
\* last dot, unless only dots come before that dot
SplitExtRoot(name) ==
    LET dots == {i \in 1..Len(name) : Char(name, i) = "."}
        last == IF dots = {} THEN 0
                ELSE CHOOSE i \in dots : \A j \in dots : i >= j
    IN  IF last > 0 /\ \E i \in 1..(last - 1) : Char(name, i) # "."
        THEN SubSeq(name, 1, last - 1)
        ELSE name

-----------------------------------------------------------------------------
(* convert *)

\* The image files that exist, with their bytes
SourceFiles ==
    ("img/a.png" :> <<137, 80, 78>>) @@ ("e.png" :> <<>>)
        @@ ("logo.bmp" :> <<66, 77>>)

\* The bytes img2img.convert saves when it succeeds
CanonicalBytes == <<137, 80, 78, 71>>

\* img2img.convert(fileName, maskClr, None, tfname, wx.BITMAP_TYPE_PNG,
\* ".png"): the image fails to load, or it is saved under tfname
Img2ImgConvert(fileName, maskClr) ==
    {[exc |-> "none", ok |-> FALSE, msg |-> fileName \o " failed to load!",
      bytes |-> <<>>, ops |-> <<"src:read">>]}
    \cup
    IF fileName \in DOMAIN SourceFiles
    THEN {[exc |-> "none", ok |-> TRUE, msg |-> "ok",
           bytes |-> CanonicalBytes, ops |-> <<"src:read", "tmp:write">>]}
    ELSE {}

\* convert(fileName, maskClr, None, tfname, wx.BITMAP_TYPE_PNG, ".png"):
\* the possible results, each with the bytes of the temporary file
\* afterwards and the file operations made
convert(fileName, maskClr) ==
    IF maskClr = DEFAULT_MASKCLR /\ endswith(upper(fileName), upper(".png"))
    THEN IF fileName \in DOMAIN SourceFiles
         THEN {[exc |-> "none", ok |-> TRUE, msg |-> "ok",
                bytes |-> SourceFiles[fileName],
                ops |-> <<"tmp:write", "src:read">>]}
         ELSE {[exc |-> "FileNotFoundError", ok |-> FALSE, msg |-> "",
                bytes |-> <<>>, ops |-> <<"tmp:write">>]}
    ELSE Img2ImgConvert(fileName, maskClr)

-----------------------------------------------------------------------------
(* img2py *)

\* A variant without the return after a failed conversion
TryExitNoReturn(cv) ==
    IF cv.exc # "none" THEN "raise" ELSE "fallthrough"

\* How the try block is left
TryExit(cv) ==
    IF cv.exc # "none" THEN "raise"
    ELSE IF ~cv.ok THEN "return"
    ELSE "fallthrough"

\* A variant that removes the file only when the try block runs to its end
CleanupOnSuccessOnly(exit) ==
    IF exit = "fallthrough" THEN <<"tmp:remove">> ELSE <<>>

\* finally: if os.path.exists(tfname): os.remove(tfname)
Cleanup(exit) == <<"tmp:remove">>

\* Is a text true in Python
Truthy(str) == str # None /\ str # ""

\* The summary printed at the end
Summary(image_file, imgName, python_file, maskClr) ==
    OutLine("Embedded " \o image_file
            \o (IF Truthy(imgName) THEN " using \"" \o imgName \o "\""
                ELSE "")
            \o " into " \o python_file
            \o (IF Truthy(maskClr) THEN " with mask " \o maskClr ELSE ""))

NameWarning(imgName) ==
    OutLine("\nWarning: -n not specified. Using filename (" \o imgName
            \o ") for name of image and/or catalog entry.")

\* The end of a call
End(file, out, log, how, old_index) ==
    [pyfile |-> file, printed |-> out, fsLog |-> log, outcome |-> how,
     oldIndex |-> old_index]

\* Lines 238-256 of img2py: the record w is written and the summary printed
EmitRecord(r, imgName, w, file, out, log) ==
    IF w.exc # "none"
    THEN End(IF r.python_file = "-" THEN file
             ELSE IF r.append THEN File(file.text \o w.text1)
             ELSE File(w.text1),
             IF r.python_file = "-" THEN Append(out, w.text1) ELSE out,
             IF r.python_file = "-" THEN log
             ELSE Append(log, IF r.append THEN "py:append" ELSE "py:write"),
             w.exc, w.old_index)
    ELSE End(IF r.python_file = "-" THEN file
             ELSE IF r.append THEN File(file.text \o w.text1 \o w.text2)
             ELSE File(w.text1 \o w.text2),
             (IF r.python_file = "-"
              THEN out \o <<w.text1>> \o w.printed \o <<w.text2>>
              ELSE out \o w.printed)
                \o <<Summary(r.image_file, imgName, r.python_file,
                             r.maskClr)>>,
             IF r.python_file = "-" THEN log
             ELSE Append(log, IF r.append THEN "py:append" ELSE "py:write"),
             "done", w.old_index)

\* Lines 233-244 of img2py: the name is settled and _write_image called
EmitNamed(r, imgName, data, old_index, file, out, log) ==
    EmitRecord(r, imgName,
               WriteImage(imgName, data, r.append, r.icon, r.catalog,
                          IF r.functionCompatibile # NoTypo
                          THEN r.functionCompatibile # 0
                          ELSE r.functionCompatible,
                          old_index),
               file,
               IF r.imgName = "" THEN Append(out, NameWarning(imgName))
               ELSE out,
               log)

\* Lines 227-231 of img2py: the scaffolding is appended when the scan
\* found none
EmitScanned(r, data, append_catalog, old_index, file, out, log) ==
    EmitNamed(r,
              IF r.imgName = "" THEN SplitExtRoot(PathTail(r.image_file))
              ELSE r.imgName,
              data, old_index,
              IF append_catalog THEN File(file.text \o CatalogStart)
              ELSE file,
              out,
              IF append_catalog THEN log \o <<"py:read", "py:append">>
              ELSE log \o <<"py:read">>)

\* Lines 210-256 of img2py, entered with the joined payload lines in data
Emit(r, data, file, out, log) ==
    IF r.catalog /\ r.append /\ r.python_file # "-"
    THEN IF ~file.exists
         THEN End(file, out, Append(log, "py:read"), "FileNotFoundError",
                  <<>>)
         ELSE EmitScanned(r, data, AppendCatalog(file.text),
                          ScanIndex(file.text), file, out, log)
    ELSE EmitNamed(r,
                   IF r.imgName = ""
                   THEN SplitExtRoot(PathTail(r.image_file))
                   ELSE r.imgName,
                   data, <<>>, file, out, log)

\* img2py called with the arguments r when convert gives cv
Run(r, cv, file) ==
    LET exit == TryExit(cv)
        log == <<"tmp:create">> \o cv.ops
                \o (IF exit = "fallthrough" THEN <<"tmp:read">> ELSE <<>>)
                \o Cleanup(exit)
    IN  IF exit = "raise" THEN End(file, <<>>, log, cv.exc, <<>>)
        ELSE IF exit = "return"
        THEN End(file, <<OutLine(cv.msg)>>, log, "failed", <<>>)
        ELSE Emit(r, Join("\n", PayloadLines(b64encode(cv.bytes))), file,
                  <<>>, log)

\* The arguments of the calls
Args(image_file, python_file, append, maskClr, imgName, icon, catalog, fc, typo) ==
    [image_file |-> image_file, python_file |-> python_file,
     append |-> append, maskClr |-> maskClr, imgName |-> imgName,
     icon |-> icon, catalog |-> catalog,
     functionCompatible |-> fc,
     functionCompatibile |-> typo]

\* Calls that differ in the target, the mode, the catalog and the name
CatalogCalls ==
    {Args("img/a.png", t, a, DEFAULT_MASKCLR, n, DEFAULT_ICON, c,
          DEFAULT_COMPATIBLE, NoTypo) :
        t \in {"out.py", "-"}, a \in BOOLEAN, c \in BOOLEAN,
        n \in {"a", "b"}}

\* The images converted: a file and a mask colour
Images ==
    {<<"e.png", DEFAULT_MASKCLR>>, <<"logo.bmp", DEFAULT_MASKCLR>>,
     <<"gone.png", DEFAULT_MASKCLR>>, <<"e.png", "#ff0000">>}

\* Calls that differ in the image, the mode and the catalog
CodecCalls ==
    {Args(im[1], "out.py", a, im[2], DEFAULT_IMGNAME, DEFAULT_ICON, c,
          DEFAULT_COMPATIBLE, NoTypo) :
        im \in Images, a \in BOOLEAN, c \in BOOLEAN}

\* The accessors asked for: functionCompatible and functionCompatibile
AccessorModes == {<<TRUE, NoTypo>>, <<FALSE, 1>>, <<TRUE, 0>>}

\* Calls that differ in the accessors asked for
AccessorCalls ==
    {Args("img/a.png", "out.py", a, DEFAULT_MASKCLR, "1x", i,
          DEFAULT_CATALOG, ft[1], ft[2]) :
        a \in BOOLEAN, i \in BOOLEAN, ft \in AccessorModes}

Requests == CatalogCalls \cup CodecCalls \cup AccessorCalls

\* The logical name a call registers
NameOf(r) ==
    IF r.imgName = "" THEN SplitExtRoot(PathTail(r.image_file))
    ELSE r.imgName

\* Is a call a catalog append to the file whose conversion succeeded
IsCatalogAppend(r, cv) ==
    r.catalog /\ r.append /\ r.python_file # "-" /\ cv.exc = "none" /\ cv.ok

\* Before the first call
NoCall ==
    [args |-> Args("", "-", DEFAULT_APPEND, DEFAULT_MASKCLR, DEFAULT_IMGNAME,
                   DEFAULT_ICON, DEFAULT_CATALOG, DEFAULT_COMPATIBLE, NoTypo),
     conv |-> [exc |-> NotRun, ok |-> FALSE, msg |-> "", bytes |-> <<>>,
               ops |-> <<>>]]

\* One call of img2py
Img2py ==
    /\ ncalls < MaxCalls
    /\ \E r \in Requests : \E cv \in convert(r.image_file, r.maskClr) :
        \E end \in {Run(r, cv, pyfile)} :
            /\ pyfile' = end.pyfile
            /\ printed' = end.printed
            /\ fsLog' = end.fsLog
            /\ tmpExists' = (\A k \in 1..Len(end.fsLog) :
                                end.fsLog[k] # "tmp:remove")
            /\ outcome' = end.outcome
            /\ oldIndex' = end.oldIndex
            /\ app' = (IF app = None THEN "wx.App" ELSE app)
            /\ lastCall' = [args |-> r, conv |-> cv]
            /\ ncalls' = ncalls + 1
            /\ appends' =
                IF appends.all /\ IsCatalogAppend(r, cv)
                THEN [all |-> TRUE, names |-> Append(appends.names, NameOf(r))]
                ELSE [all |-> FALSE, names |-> <<>>]
    /\ UNCHANGED <<initial, sanVars, encVars>>

InitFile ==
    /\ initial \in {NoFile, File("")}
    /\ pyfile = initial
    /\ printed = <<>>
    /\ tmpExists = FALSE
    /\ fsLog = <<>>
    /\ outcome = NotRun
    /\ oldIndex = <<>>
    /\ app = None
    /\ lastCall = NoCall
    /\ ncalls = 0
    /\ appends = [all |-> TRUE, names |-> <<>>]

Init ==
    /\ InitFile
    /\ sanIn = "" /\ sanOut = Raised(NotRun)
    /\ encIn = <<>> /\ encOut = <<NotRun>>

\* The byte sequences given to the encoder
Seeds == {1, 37, 101}
Bytes(len, seed) == [i \in 1..len |-> (seed * i + 3 * seed) % 256]

InitEnc ==
    /\ encIn \in {Bytes(len, seed) : len \in 0..MaxBytes, seed \in Seeds}
    /\ encOut = <<NotRun>>

\* Lines 195-204 of img2py on the bytes read from the temporary file
Encode ==
    /\ encOut = <<NotRun>>
    /\ encOut' = PayloadLines(b64encode(encIn))
    /\ UNCHANGED <<encIn, fileVars, sanVars>>

\* The names given to the sanitizer
NameChars == {"a", "Z", "7", "_", "-", " ", "."}

RECURSIVE Names(_)
Names(n) ==
    IF n = 0 THEN {""}
    ELSE Names(n - 1) \cup {s \o c : s \in Names(n - 1), c \in NameChars}

InitSan ==
    /\ sanIn \in Names(MaxNameLen)
    /\ sanOut = Raised(NotRun)

\* One call of _replace_non_alphanumeric_with_underscore
Sanitize ==
    /\ sanOut = Raised(NotRun)
    /\ sanOut' = _replace_non_alphanumeric_with_underscore(sanIn)
    /\ UNCHANGED <<sanIn, fileVars, encVars>>

Next == Img2py

Spec == Init /\ [][Next]_vars

NextEnc == Encode

InitEncoder ==
    /\ InitFile
    /\ InitEnc
    /\ sanIn = "" /\ sanOut = Raised(NotRun)

SpecEnc == InitEncoder /\ [][NextEnc]_vars

NextSan == Sanitize

InitSanitizer ==
    /\ InitFile
    /\ InitSan
    /\ encIn = <<>> /\ encOut = <<NotRun>>

SpecSan == InitSanitizer /\ [][NextSan]_vars

-----------------------------------------------------------------------------
(* What the properties observe *)

startswith(s, prefix) ==
    Len(s) >= Len(prefix) /\ SubSeq(s, 1, Len(prefix)) = prefix

IsAssignment(line) == endswith(line, " = PyEmbeddedImage(\n")
IsImport(line) ==
    line = "from wx.lib.embeddedimage import PyEmbeddedImage\n"
IsClosingLine(line) == startswith(line, Indent) /\ endswith(line, ")\n")

\* The index registrations and the mapping registrations of a name
IndexRegs(text, n) ==
    Len(SelectSeq(SplitLines(text),
                  LAMBDA l : l = "index.append('" \o n \o "')\n"))

MappingRegs(text, n) ==
    Len(SelectSeq(SplitLines(text),
                  LAMBDA l : startswith(l, "catalog['" \o n \o "'] = ")))

\* The number of records of a text
NumRecords(text) == Len(SelectSeq(SplitLines(text), IsAssignment))

\* How often a line occurs in a text
Occurrences(text, line) ==
    Len(SelectSeq(SplitLines(text), LAMBDA l : l = line))

IsPrefix(s, t) == startswith(t, s)

InSeq(x, seq) == \E k \in 1..Len(seq) : seq[k] = x

\* A step that is a call of img2py
IsCall == ncalls' = ncalls + 1

-----------------------------------------------------------------------------
(* C1 *)

\* The call just made had catalog and append on, a file target whose index
\* registrations already held its name, and a conversion that succeeded
DuplicateCall ==
    /\ IsCall
    /\ lastCall'.args.catalog /\ lastCall'.args.append
    /\ lastCall'.args.python_file # "-"
    /\ lastCall'.conv.ok
    /\ pyfile.exists
    /\ IndexRegs(pyfile.text, NameOf(lastCall'.args)) >= 1

\* C1: a catalog append of a name the artifact's index registrations
\* already hold prints the 'already in catalog' warning and still appends
\* the record: the call ends normally, the old text is kept as a prefix,
\* and the name has one index registration and one mapping registration
\* more than before, so at least two of each.
C1_DuplicateWarnedAndAppended ==
    [][DuplicateCall =>
        LET n == NameOf(lastCall'.args)
        IN  /\ InSeq(OutLine("Warning: " \o n \o " already in catalog."),
                     printed')
            /\ outcome' = "done"
            /\ IsPrefix(pyfile.text, pyfile'.text)
            /\ IndexRegs(pyfile'.text, n) = IndexRegs(pyfile.text, n) + 1
            /\ MappingRegs(pyfile'.text, n)
                    = MappingRegs(pyfile.text, n) + 1
            /\ IndexRegs(pyfile'.text, n) >= 2
            /\ MappingRegs(pyfile'.text, n) >= 2]_vars

\* A catalog append of the name "a" warned and left two registrations
C1_Witness ==
    /\ lastCall.args.catalog /\ lastCall.args.append
    /\ lastCall.args.python_file = "out.py"
    /\ lastCall.args.imgName = "a"
    /\ outcome = "done"
    /\ InSeq(OutLine("Warning: a already in catalog."), printed)
    /\ IndexRegs(pyfile.text, "a") = 2
    /\ MappingRegs(pyfile.text, "a") = 2

-----------------------------------------------------------------------------
(* C2 *)

AtMostOnce(lines) ==
    /\ Len(SelectSeq(lines, LAMBDA l : l = CatalogLine)) <= 1
    /\ Len(SelectSeq(lines, LAMBDA l : l = IndexLine)) <= 1

\* C2: the artifact never holds the line 'catalog = {}' or the line
\* 'index = []' more than once, whatever calls were made on a target that
\* started empty or absent.
C2_ScaffoldingAtMostOnce == AtMostOnce(SplitLines(pyfile.text))

\* A catalog append was made to an artifact that already had the
\* scaffolding and a record
C2_Witness ==
    /\ ncalls >= 2
    /\ lastCall.args.catalog /\ lastCall.args.append
    /\ lastCall.args.python_file = "out.py"
    /\ outcome = "done"
    /\ NumRecords(pyfile.text) >= 2
    /\ oldIndex # <<>> /\ Len(oldIndex) >= 2
    /\ Occurrences(pyfile.text, CatalogLine) = 1
    /\ Occurrences(pyfile.text, IndexLine) = 1

-----------------------------------------------------------------------------
(* C3 *)

\* C3: when every call so far was a catalog append to the file, the
\* artifact holds one record per call and its index registrations, as the
\* next call would reconstruct them, name the calls' names in call order.
C3_IndexInCallOrder ==
    (ncalls > 0 /\ appends.all) =>
        /\ pyfile.exists
        /\ NumRecords(pyfile.text) = ncalls
        /\ ScanIndex(pyfile.text) = appends.names

-----------------------------------------------------------------------------
(* C4 *)

\* C4: a catalog append to a file target that does not exist ends normally
\* and leaves an artifact with the scaffolding and the record.
C4_MissingTargetCreated ==
    [][(IsCall /\ IsCatalogAppend(lastCall'.args, lastCall'.conv)
            /\ ~pyfile.exists) =>
        /\ outcome' = "done"
        /\ pyfile'.exists
        /\ Occurrences(pyfile'.text, CatalogLine) = 1
        /\ NumRecords(pyfile'.text) = 1]_vars

-----------------------------------------------------------------------------
(* C5 *)

\* Has a sequence of lines no record, or the import ahead of the first one
ImportBeforeFirstRecord(lines) ==
    \A k \in 1..Len(lines) :
        IsAssignment(lines[k]) => \E j \in 1..(k - 1) : IsImport(lines[j])

\* C5: an artifact that holds a record holds the import of PyEmbeddedImage
\* ahead of its first record.
C5_ImportBeforeFirstRecord ==
    ImportBeforeFirstRecord(SplitLines(pyfile.text))

-----------------------------------------------------------------------------
(* C6 *)

\* The call just made had a conversion that reported failure
FailedConversion ==
    IsCall /\ lastCall'.conv.exc = "none" /\ ~lastCall'.conv.ok

\* C6: when convert reports failure the call prints the message and
\* nothing else, and leaves the target as it was: it neither reads nor
\* writes it.
C6_FailureLeavesTarget ==
    [][FailedConversion =>
        /\ pyfile' = pyfile
        /\ printed' = <<OutLine(lastCall'.conv.msg)>>
        /\ \A k \in 1..Len(fsLog') :
            fsLog'[k] \notin {"py:read", "py:append", "py:write"}]_vars

\* An overwrite-mode call failed to convert and the artifact still holds
\* its record
C6_Witness ==
    /\ ncalls >= 2
    /\ lastCall.conv.exc = "none" /\ ~lastCall.conv.ok
    /\ ~lastCall.args.append
    /\ lastCall.args.python_file = "out.py"
    /\ outcome = "failed"
    /\ pyfile.exists /\ NumRecords(pyfile.text) >= 1

-----------------------------------------------------------------------------
(* C9 *)

Closed(lines) ==
    Len(SelectSeq(lines, IsAssignment))
        = Len(SelectSeq(lines, IsClosingLine))

\* C9: after a call that converted to empty bytes and wrote to the file,
\* every constructor call of the artifact is closed.
C9_EmptyPayloadClosed ==
    (outcome = "done" /\ lastCall.conv.bytes = <<>>
        /\ lastCall.args.python_file # "-") =>
        Closed(SplitLines(pyfile.text))

-----------------------------------------------------------------------------
(* C10 *)

IsTargetOp(op) == op \in {"py:read", "py:append", "py:write"}

\* C10: after every call the temporary file is gone, whether the call
\* ended normally, returned after a failed conversion or raised, and it
\* was removed before the first read or write of the target.
C10_TemporaryRemoved ==
    ncalls > 0 =>
        /\ fsLog[1] = "tmp:create"
        /\ ~tmpExists
        /\ \E k \in 1..Len(fsLog) :
            /\ fsLog[k] = "tmp:remove"
            /\ \A j \in 1..Len(fsLog) : IsTargetOp(fsLog[j]) => k < j

\* A conversion raised an exception and the temporary file is gone
C10_Witness ==
    /\ ncalls > 0
    /\ lastCall.conv.exc = "FileNotFoundError"
    /\ outcome = "FileNotFoundError"
    /\ InSeq("tmp:remove", fsLog)
    /\ ~tmpExists

-----------------------------------------------------------------------------
(* C7 *)

IsIdentifier(str) ==
    /\ Len(str) >= 1
    /\ \A i \in 1..Len(str) : isalnum(Char(str, i)) \/ Char(str, i) = "_"
    /\ isalpha(Char(str, 1)) \/ Char(str, 1) = "_"

\* C7: for every name the sanitizer returns an identifier: alphanumerics
\* and underscores only, the first a letter or an underscore.
C7_AlwaysIdentifier ==
    sanOut # Raised(NotRun) =>
        sanOut.exc = "none" /\ IsIdentifier(sanOut.val)

-----------------------------------------------------------------------------
(* C8 *)

\* The encoded content of a payload line: what stands between the
\* indentation with the opening b' and the closing quote
LineContent(line) ==
    SubSeq(line, Len(Indent) + 3,
           IF endswith(line, ")") THEN Len(line) - 2 ELSE Len(line) - 1)

WellFormedLine(line, isLast) ==
    /\ startswith(line, Indent \o "b'")
    /\ endswith(line, IF isLast THEN "')" ELSE "'")
    /\ \A i \in 1..Len(LineContent(line)) :
        Char(LineContent(line), i) \in CharsOf(B64Alphabet) \cup {"="}
    /\ IF isLast THEN Len(LineContent(line)) \in 1..ChunkWidth
       ELSE Len(LineContent(line)) = ChunkWidth

Contents(lines) == Concat([k \in 1..Len(lines) |-> LineContent(lines[k])])

\* C8: for non-empty bytes every payload line is indented by four spaces,
\* every line but the last carries 72 encoded characters, the last line
\* and only the last carries ")", and the contents in order are the base64
\* text of the bytes and decode to them.
C8_PayloadLines ==
    (encOut # <<NotRun>> /\ encIn # <<>>) =>
        /\ Len(encOut) >= 1
        /\ \A k \in 1..Len(encOut) : WellFormedLine(encOut[k], k = Len(encOut))
        /\ Contents(encOut) = b64encode(encIn)
        /\ b64decode(Contents(encOut)) = encIn

\* Bytes that need three payload lines were encoded
C8_Witness ==
    /\ encOut # <<NotRun>>
    /\ Len(encIn) > 108
    /\ Len(encOut) = 3

====
